---- MODULE Spec2Model ----
(***************************************************************************)
(* A model of smartify/param.py: the parameter objects P / PDict / PList,  *)
(* their builder methods, clone() and the recursive evaluation P.run.      *)
(*                                                                         *)
(* Python objects live on a heap: `heap` holds the P instances (ids        *)
(* 1..Len(heap)), `lists` holds the list objects (a P refers to its        *)
(* _processors and _dict_fields lists by id, so that two P instances       *)
(* sharing one list object can be told from two P instances with equal     *)
(* lists).  `origin` records which instance each instance was cloned from  *)
(* (0: constructed), `last` the most recent call and, for run, its outcome.*)
(*                                                                         *)
(* The callables given to process() and validate() are inputs: the model   *)
(* draws them from a few that return, rename, or raise typed and untyped   *)
(* failures.  Processors built from a regular expression are not modelled. *)
(***************************************************************************)
EXTENDS Integers, Sequences, FiniteSets, TLC

VARIABLES heap, lists, origin, last

vars == <<heap, lists, origin, last>>

-----------------------------------------------------------------------------
(* Bounds of the model *)

MaxSpecs == 3
MaxProcs == 2
MaxFields == 2

MaxLists == 2 * MaxSpecs

-----------------------------------------------------------------------------
(* Python values.  Every value is a record [t, v]; t is the Python type. *)

VNone == [t |-> "none", v |-> 0]
VInt(n) == [t |-> "int", v |-> n]
VList(s) == [t |-> "list", v |-> s]
VDict(f) == [t |-> "dict", v |-> f]

\* the string-valued attributes (names) use NoneStr for Python's None
NoneStr == "<None>"

\* Python truthiness of an Optional[str]
Truthy(s) == s # NoneStr /\ s # ""

\* Python's `a or b` on Optional[str]
Or(a, b) == IF Truthy(a) THEN a ELSE b

\* the keys of a dict value are strings; `<<>>` is the empty dict
EmptyDict == <<>>

\* dict.get(key): the entry, or None when the key is absent
DictGet(d, key) == IF key \in DOMAIN d THEN d[key] ELSE VNone

\* d[key] = value
DictSet(d, key, value) == (key :> value) @@ d

-----------------------------------------------------------------------------
(* P.ATOM, P.LIST, P.DICT and the private "no default" symbol *)

ATOM == "ATOM"
LIST == "LIST"
DICT == "DICT"

NoDefault == [t |-> "Symbol", v |-> 0]

-----------------------------------------------------------------------------
(* Failures.  An E instance carries its kind, the two format arguments     *)
(* and the debug message.                                                  *)

NoError == [kind |-> "", name |-> "", read |-> "", msg |-> ""]

E(kind, name, read_name, debug_message) ==
  [kind |-> kind, name |-> name, read |-> read_name, msg |-> debug_message]

\* PError.PATTERN_NOT_MATCH is raised as it is registered, without arguments
PATTERN_NOT_MATCH == E("PATTERN_NOT_MATCH", NoneStr, NoneStr, "")

-----------------------------------------------------------------------------
(* Processor objects and the callables they wrap *)

\* Processor.__init__ with a callable
Processor(processor, only_validate, yield_name) ==
  [processor |-> processor, only_validate |-> only_validate, yield_name |-> yield_name]

\* The callables handed to process()/validate() in this model:
\*   "inc"    lambda x: x + 1            (TypeError on anything but an int)
\*   "ident"  lambda x: x
\*   "reject" raises PError.PATTERN_NOT_MATCH (a typed failure)
\*   "boom"   raises ValueError("boom")    (an untyped failure)
Callables == {"inc", "ident", "reject", "boom"}

Returned(value) == [raised |-> "no", result |-> value, err |-> NoError, msg |-> ""]
RaisedE(e) == [raised |-> "typed", result |-> VNone, err |-> e, msg |-> ""]
RaisedOther(msg) == [raised |-> "untyped", result |-> VNone, err |-> NoError, msg |-> msg]

Call(fn, value) ==
  CASE fn = "inc" -> IF value.t = "int" THEN Returned(VInt(value.v + 1))
                     ELSE RaisedOther("TypeError")
    [] fn = "ident" -> Returned(value)
    [] fn = "reject" -> RaisedE(PATTERN_NOT_MATCH)
    [] OTHER -> RaisedOther("boom")

-----------------------------------------------------------------------------
(* P.run *)

\* the outcome of a run: a returned pair or a raised failure, with the log of
\* the calls made on the way: [spec, idx, arg] is an entry to spec.run(arg)
\* (idx = 0) or a call of spec's idx-th processor on arg
Return(yield_name, value, log) ==
  [st |-> "ok", key |-> yield_name, val |-> value, err |-> NoError, log |-> log]

Raise(e, log) ==
  [st |-> "err", key |-> NoneStr, val |-> VNone, err |-> e, log |-> log]

\* (variant: a default of None counts as no default)
HasDefault_NotNone(self) == self.default_value # NoDefault /\ self.default_value # VNone

\* P._has_default
HasDefault(self) == self.default_value # NoDefault

RECURSIVE RunProcessors(_, _, _, _, _, _, _)

\* (variant: a validate-only processor's yield_name renames the output too)
RunProcessors_ValidatorRenames(h, p, procs, i, yield_name, value, log) ==
  IF i > Len(procs) THEN Return(yield_name, value, log)
  ELSE LET processor == procs[i]
           error == IF processor.only_validate THEN "VALIDATOR_CRUSHED"
                    ELSE "PROCESSOR_CRUSHED"
           r == Call(processor.processor, value)
           log2 == Append(log, [spec |-> p, idx |-> i, arg |-> value])
       IN  IF r.raised = "typed" THEN Raise(r.err, log2)
           ELSE IF r.raised = "untyped"
             THEN Raise(E(error, h[p].name, h[p].read_name, r.msg), log2)
           ELSE RunProcessors(h, p, procs, i + 1, Or(processor.yield_name, yield_name),
                              IF processor.only_validate THEN value ELSE r.result, log2)

\* (variant: every failure of a processor is wrapped, typed ones too)
RunProcessors_WrapAll(h, p, procs, i, yield_name, value, log) ==
  IF i > Len(procs) THEN Return(yield_name, value, log)
  ELSE LET processor == procs[i]
           error == IF processor.only_validate THEN "VALIDATOR_CRUSHED"
                    ELSE "PROCESSOR_CRUSHED"
           r == Call(processor.processor, value)
           log2 == Append(log, [spec |-> p, idx |-> i, arg |-> value])
       IN  IF r.raised # "no"
             THEN Raise(E(error, h[p].name, h[p].read_name, r.msg), log2)
           ELSE IF ~processor.only_validate
             THEN RunProcessors(h, p, procs, i + 1,
                                Or(processor.yield_name, yield_name), r.result, log2)
           ELSE RunProcessors(h, p, procs, i + 1, yield_name, value, log2)

\* the processor loop of run, from the i-th processor on
RunProcessors(h, p, procs, i, yield_name, value, log) ==
  IF i > Len(procs) THEN Return(yield_name, value, log)
  ELSE LET processor == procs[i]
           error == IF processor.only_validate THEN "VALIDATOR_CRUSHED"
                    ELSE "PROCESSOR_CRUSHED"
           r == Call(processor.processor, value)
           log2 == Append(log, [spec |-> p, idx |-> i, arg |-> value])
       IN  IF r.raised = "typed" THEN Raise(r.err, log2)
           ELSE IF r.raised = "untyped"
             THEN Raise(E(error, h[p].name, h[p].read_name, r.msg), log2)
           ELSE IF ~processor.only_validate
             THEN RunProcessors(h, p, procs, i + 1,
                                Or(processor.yield_name, yield_name), r.result, log2)
           ELSE RunProcessors(h, p, procs, i + 1, yield_name, value, log2)

RECURSIVE Run(_, _, _, _, _)
RECURSIVE RunListChildren(_, _, _, _, _, _, _)
RECURSIVE RunDictFields(_, _, _, _, _, _, _)

\* (variant: the new list is built back to front)
RunListChildren_Prepend(h, ls, child, value, i, new_value, log) ==
  IF i > Len(value) THEN Return(NoneStr, VList(new_value), log)
  ELSE LET r == Run(h, ls, child, value[i], log)
       IN  IF r.st = "err" THEN r
           ELSE RunListChildren(h, ls, child, value, i + 1,
                                <<r.val>> \o new_value, r.log)

\* the loop over the elements of a list value, from the i-th element on
RunListChildren(h, ls, child, value, i, new_value, log) ==
  IF i > Len(value) THEN Return(NoneStr, VList(new_value), log)
  ELSE LET r == Run(h, ls, child, value[i], log)
       IN  IF r.st = "err" THEN r
           ELSE RunListChildren(h, ls, child, value, i + 1,
                                Append(new_value, r.val), r.log)

\* (variant: an output key already present keeps its value)
RunDictFields_KeepFirst(h, ls, fields, value, i, new_value, log) ==
  IF i > Len(fields) THEN Return(NoneStr, VDict(new_value), log)
  ELSE LET child_field == fields[i]
           child_value == DictGet(value, h[child_field].name)
           r == Run(h, ls, child_field, child_value, log)
       IN  IF r.st = "err" THEN r
           ELSE RunDictFields(h, ls, fields, value, i + 1,
                              IF r.key \in DOMAIN new_value THEN new_value
                              ELSE DictSet(new_value, r.key, r.val), r.log)

\* the loop over the fields of a dict spec, from the i-th field on
RunDictFields(h, ls, fields, value, i, new_value, log) ==
  IF i > Len(fields) THEN Return(NoneStr, VDict(new_value), log)
  ELSE LET child_field == fields[i]
           child_value == DictGet(value, h[child_field].name)
           r == Run(h, ls, child_field, child_value, log)
       IN  IF r.st = "err" THEN r
           ELSE RunDictFields(h, ls, fields, value, i + 1,
                              DictSet(new_value, r.key, r.val), r.log)

\* the shape check and the descent into the children
RunShape(h, ls, p, value, log) ==
  LET self == h[p]
  IN  IF self.type = LIST
        THEN IF value.t # "list"
               THEN Raise(E("REQUIRE_LIST", self.name, self.read_name, ""), log)
             ELSE IF self.list_child # 0
               THEN RunListChildren(h, ls, self.list_child, value.v, 1, <<>>, log)
             ELSE Return(NoneStr, value, log)
      ELSE IF self.type = DICT
        THEN IF value.t # "dict"
               THEN Raise(E("REQUIRE_DICT", self.name, self.read_name, ""), log)
             ELSE RunDictFields(h, ls, ls[self.dict_fields], value.v, 1, EmptyDict, log)
      ELSE Return(NoneStr, value, log)

\* run from the shape check on
RunValue(h, ls, p, value, log) ==
  LET s == RunShape(h, ls, p, value, log)
  IN  IF s.st = "err" THEN s
      ELSE RunProcessors(h, p, ls[h[p].processors], 1, h[p].yield_name, s.val, s.log)

\* (variant: the default is looked at before nullability)
RunNull_DefaultFirst(h, ls, p, log) ==
  LET self == h[p]
      yield_name == self.yield_name
  IN  IF HasDefault(self)
        THEN IF ~self.default_through_processors
               THEN Return(yield_name, self.default_value, log)
             ELSE RunValue(h, ls, p, self.default_value, log)
      ELSE IF self.null THEN Return(yield_name, VNone, log)
      ELSE Raise(E("NULL_NOT_ALLOW", self.name, self.read_name, ""), log)

\* (variant: a default sent through the processors skips the shape check)
RunNull_SkipShape(h, ls, p, log) ==
  LET self == h[p]
      yield_name == self.yield_name
  IN  IF self.null THEN Return(yield_name, VNone, log)
      ELSE IF HasDefault(self)
        THEN IF ~self.default_through_processors
               THEN Return(yield_name, self.default_value, log)
             ELSE RunProcessors(h, p, ls[self.processors], 1, yield_name,
                                self.default_value, log)
      ELSE Raise(E("NULL_NOT_ALLOW", self.name, self.read_name, ""), log)

\* the branch of run for value None
RunNull(h, ls, p, log) ==
  LET self == h[p]
      yield_name == self.yield_name
  IN  IF self.null THEN Return(yield_name, VNone, log)
      ELSE IF HasDefault(self)
        THEN IF ~self.default_through_processors
               THEN Return(yield_name, self.default_value, log)
             ELSE RunValue(h, ls, p, self.default_value, log)
      ELSE Raise(E("NULL_NOT_ALLOW", self.name, self.read_name, ""), log)

Run(h, ls, p, value, log0) ==
  LET log == Append(log0, [spec |-> p, idx |-> 0, arg |-> value])
  IN  IF value = VNone THEN RunNull(h, ls, p, log)
      ELSE RunValue(h, ls, p, value, log)

\* run called by the user, with an empty log
RunTop(p, value) == Run(heap, lists, p, value, <<>>)

-----------------------------------------------------------------------------
(* The heap *)

\* P.__init__.  arrow is the pair <<yield_name_, name>> that
\* Attribute.arrow_extract returned for the name argument; fields and procs
\* are the two list objects the constructor creates
InitP(arrow, read_name, yield_name, type_, fields, procs) ==
  [name |-> arrow[2],
   read_name |-> Or(read_name, arrow[2]),
   yield_name |-> Or(yield_name, arrow[1]),
   null |-> FALSE,
   default_value |-> NoDefault,
   default_through_processors |-> FALSE,
   type |-> type_,
   dict_fields |-> fields,
   list_child |-> 0,
   processors |-> procs]

Ids == 1 .. Len(heap)

\* the list objects some P refers to
Referenced(h) ==
  {h[i].dict_fields : i \in 1 .. Len(h)} \cup {h[i].processors : i \in 1 .. Len(h)}

\* a list object nothing refers to (the lowest id, so that equal heaps are equal states)
FreeList(h) ==
  CHOOSE i \in 1 .. MaxLists :
    /\ i \notin Referenced(h)
    /\ \A j \in 1 .. (i - 1) : j \in Referenced(h)

\* list objects nothing refers to are collected
Collect(h, ls) == [i \in 1 .. MaxLists |-> IF i \in Referenced(h) THEN ls[i] ELSE <<>>]

Range(s) == {s[i] : i \in 1 .. Len(s)}

\* the specs p descends into when it runs
Children(h, ls, p) ==
  (IF h[p].list_child # 0 THEN {h[p].list_child} ELSE {}) \cup Range(ls[h[p].dict_fields])

RECURSIVE Reaches(_, _, _, _)
Reaches(h, ls, a, b) == a = b \/ \E c \in Children(h, ls, a) : Reaches(h, ls, c, b)

\* what `last` holds after a builder call
NoOut == [st |-> "none", key |-> NoneStr, val |-> VNone, err |-> NoError, log |-> <<>>]

Note(op, p, q, flag, flag2, arg) ==
  [op |-> op, p |-> p, q |-> q, flag |-> flag, flag2 |-> flag2, arg |-> arg, out |-> NoOut]

-----------------------------------------------------------------------------
(* The builder methods.  Each returns self, which holds no state. *)

Rename(p, name, read_name, yield_name, stay_origin) ==
  /\ heap' = [heap EXCEPT
       ![p].name = name,
       ![p].read_name = Or(read_name, IF stay_origin THEN heap[p].read_name ELSE name),
       ![p].yield_name = Or(yield_name, IF stay_origin THEN heap[p].yield_name ELSE name)]
  /\ last' = Note("rename", p, 0, stay_origin, FALSE, VNone)
  /\ UNCHANGED <<lists, origin>>

Null(p, allow) ==
  /\ heap' = [heap EXCEPT ![p].null = allow]
  /\ last' = Note("null", p, 0, allow, FALSE, VNone)
  /\ UNCHANGED <<lists, origin>>

\* (variant: allow=False leaves the default in place)
Default_NoClear(p, value, allow, through_processors) ==
  /\ heap' = [heap EXCEPT
       ![p].default_value = IF allow THEN value ELSE @,
       ![p].default_through_processors = through_processors]
  /\ last' = Note("default", p, 0, allow, through_processors, value)
  /\ UNCHANGED <<lists, origin>>

Default(p, value, allow, through_processors) ==
  /\ heap' = [heap EXCEPT
       ![p].default_value = IF allow THEN value ELSE NoDefault,
       ![p].default_through_processors = through_processors]
  /\ last' = Note("default", p, 0, allow, through_processors, value)
  /\ UNCHANGED <<lists, origin>>

\* the argument of process(): a Processor, or a bare callable [callable |-> fn]
Bare(fn) == [callable |-> fn]
IsProcessor(x) == "only_validate" \in DOMAIN x

Process(p, processor, begin) ==
  LET proc == IF IsProcessor(processor) THEN processor
              ELSE Processor(processor.callable, FALSE, NoneStr)
      l == heap[p].processors
  IN  /\ Len(lists[l]) < MaxProcs
      /\ lists' = [lists EXCEPT ![l] = IF begin THEN <<proc>> \o @ ELSE Append(@, proc)]
      /\ last' = Note("process", p, 0, begin, FALSE, VNone)
      /\ UNCHANGED <<heap, origin>>

Validate(p, validator, begin) ==
  LET proc == Processor(validator, TRUE, NoneStr)
      l == heap[p].processors
  IN  /\ Len(lists[l]) < MaxProcs
      /\ lists' = [lists EXCEPT ![l] = IF begin THEN <<proc>> \o @ ELSE Append(@, proc)]
      /\ last' = Note("validate", p, 0, begin, FALSE, VNone)
      /\ UNCHANGED <<heap, origin>>

\* PDict.add_fields.  The specs form a tree: a field that would make the spec
\* its own descendant is not added.
AddFields(p, fields) ==
  LET l == heap[p].dict_fields
  IN  /\ heap[p].type = DICT
      /\ Len(lists[l]) + Len(fields) <= MaxFields
      /\ \A i \in 1 .. Len(fields) : ~Reaches(heap, lists, fields[i], p)
      /\ lists' = [lists EXCEPT ![l] = @ \o fields]
      /\ last' = Note("add_fields", p, 0, FALSE, FALSE, VNone)
      /\ UNCHANGED <<heap, origin>>

\* PDict.set_fields: a new list object, then add_fields
SetFields(p, fields) ==
  LET l == FreeList([heap EXCEPT ![p].dict_fields = 0])
      h == [heap EXCEPT ![p].dict_fields = l]
  IN  /\ heap[p].type = DICT
      /\ Len(fields) <= MaxFields
      /\ \A i \in 1 .. Len(fields) : ~Reaches(heap, lists, fields[i], p)
      /\ heap' = h
      /\ lists' = Collect(h, [lists EXCEPT ![l] = fields])
      /\ last' = Note("set_fields", p, 0, FALSE, FALSE, VNone)
      /\ UNCHANGED origin

\* PList.set_child; child = 0 is set_child(None).  As for add_fields, the
\* child is not one that would make the spec its own descendant.
SetChild(p, child) ==
  /\ heap[p].type = LIST
  /\ child # 0 => ~Reaches(heap, lists, child, p)
  /\ heap' = [heap EXCEPT ![p].list_child = child]
  /\ last' = Note("set_child", p, child, FALSE, FALSE, VNone)
  /\ UNCHANGED <<lists, origin>>

\* (variant: copy.copy(self) alone, the two lists shared with the original)
CloneP_Shallow(h, ls, p) == [heap |-> Append(h, h[p]), lists |-> ls]

\* (variant: the element spec is copied too)
CloneP_CopyChild(h, ls, p) ==
  LET l1 == FreeList(h)
      h1 == Append(h, [h[p] EXCEPT !.processors = l1])
      l2 == FreeList(h1)
      h2 == [h1 EXCEPT ![Len(h1)].dict_fields = l2]
      h3 == IF h[p].list_child = 0 THEN h2
            ELSE Append([h2 EXCEPT ![Len(h2)].list_child = Len(h2) + 1],
                        h[h[p].list_child])
  IN  [heap |-> h3,
       lists |-> [ls EXCEPT ![l1] = ls[h[p].processors], ![l2] = ls[h[p].dict_fields]]]

\* copy.copy(self), then copies of the two lists
CloneP(h, ls, p) ==
  LET l1 == FreeList(h)
      h1 == Append(h, [h[p] EXCEPT !.processors = l1])
      l2 == FreeList(h1)
      h2 == [h1 EXCEPT ![Len(h1)].dict_fields = l2]
  IN  [heap |-> h2,
       lists |-> [ls EXCEPT ![l1] = ls[h[p].processors], ![l2] = ls[h[p].dict_fields]]]

Clone(p) ==
  LET c == CloneP(heap, lists, p)
  IN  /\ Len(heap) < MaxSpecs
      /\ heap' = c.heap
      /\ lists' = c.lists
      /\ origin' = Append(origin, p)
      /\ last' = Note("clone", p, Len(heap) + 1, FALSE, FALSE, VNone)

\* p.run(value)
RunAct(p, value) ==
  /\ last' = [op |-> "run", p |-> p, q |-> 0, flag |-> FALSE, flag2 |-> FALSE,
              arg |-> value, out |-> RunTop(p, value)]
  /\ UNCHANGED <<heap, lists, origin>>
-----------------------------------------------------------------------------
(* Null handling and defaults: a root spec of any variant (id 1) and an    *)
(* Atomic spec (id 2) that may become its element spec or its field.       *)

NoLists == [i \in 1 .. MaxLists |-> <<>>]

NoCall == Note("init", 0, 0, FALSE, FALSE, VNone)

\* the values given as defaults and as inputs
DefaultValues ==
  {VNone, VInt(5), VList(<<VInt(1)>>), VDict("e" :> VInt(1))}

\* the processors given to the root: one that raises, one that alters the
\* value and renames the output key
NullProcessors == {Bare("boom"), Processor("inc", FALSE, "k")}

InitNull ==
  /\ \E t \in {ATOM, LIST, DICT} :
       heap = <<InitP(<<NoneStr, "r">>, "R", "y", t, 1, 2), InitP(<<NoneStr, "e">>, NoneStr, "e", ATOM, 3, 4)>>
  /\ lists = NoLists
  /\ origin = <<0, 0>>
  /\ last = NoCall

NextNull ==
  \/ \E allow \in BOOLEAN : Null(1, allow)
  \/ \E value \in DefaultValues, allow \in BOOLEAN, through \in BOOLEAN :
       Default(1, value, allow, through)
  \/ \E x \in NullProcessors, begin \in BOOLEAN : Process(1, x, begin)
  \/ Validate(1, "reject", FALSE)
  \/ Process(2, Bare("inc"), FALSE)
  \/ SetChild(1, 2)
  \/ AddFields(1, <<2>>)
  \/ \E value \in DefaultValues : RunAct(1, value)

SpecNull == InitNull /\ [][NextNull]_vars

\* the log of a run that made no call: the entry to p.run(value) alone
Entered(p, value) == <<[spec |-> p, idx |-> 0, arg |-> value]>>

RanNull == last.op = "run" /\ last.arg = VNone

Procs(p) == lists[heap[p].processors]
Fields(p) == lists[heap[p].dict_fields]

\* C1: a nullable spec, of any variant, with or without a default and with
\* any processors, run on None returns (yield_name, None) and calls no
\* processor and no child: the log holds the entry to the run alone.
C1_NullableReturnsNull ==
  (RanNull /\ heap[last.p].null) =>
    last.out = Return(heap[last.p].yield_name, VNone, Entered(last.p, VNone))

\* a nullable Sequence spec with an element spec, a default and both a raising
\* and a renaming processor has been run on None
C1_Witness ==
  /\ RanNull /\ last.p = 1 /\ heap[1].null
  /\ heap[1].type = LIST /\ heap[1].list_child = 2
  /\ heap[1].default_value = VInt(5)
  /\ Procs(1) = <<Processor("boom", FALSE, NoneStr), Processor("inc", FALSE, "k")>>
  /\ last.out.st = "ok"

\* C2: default(allow=False) leaves the spec without a default, and a spec
\* that is not nullable and has no default, of any variant, run on None
\* raises NULL_NOT_ALLOW(name, read_name) before any shape check and
\* without calling a processor or a child.
C2_NullNotAllowed ==
  /\ (last.op = "default" /\ ~last.flag) => heap[last.p].default_value = NoDefault
  /\ (RanNull /\ ~heap[last.p].null /\ heap[last.p].default_value = NoDefault) =>
       last.out = Raise(E("NULL_NOT_ALLOW", heap[last.p].name, heap[last.p].read_name, ""),
                        Entered(last.p, VNone))

\* a Mapping spec with processors whose default was cleared by
\* default(allow=False, through_processors=True) has been run on None
C2_Witness ==
  /\ RanNull /\ last.p = 1 /\ ~heap[1].null
  /\ heap[1].type = DICT
  /\ heap[1].default_value = NoDefault /\ heap[1].default_through_processors
  /\ Len(Procs(1)) = 2
  /\ last.out.err.kind = "NULL_NOT_ALLOW"

\* C3: default(v, allow=True, through_processors=False) installs v, None
\* included, and a spec that is not nullable with such a default run on None
\* returns (yield_name, v) with no shape check, no child and no processor.
C3_DefaultReturnedAsIs ==
  /\ (last.op = "default" /\ last.flag /\ ~last.flag2) =>
       /\ heap[last.p].default_value = last.arg
       /\ ~heap[last.p].default_through_processors
  /\ (RanNull /\ ~heap[last.p].null /\ heap[last.p].default_value # NoDefault
         /\ ~heap[last.p].default_through_processors) =>
       last.out = Return(heap[last.p].yield_name, heap[last.p].default_value,
                         Entered(last.p, VNone))

\* a Sequence spec with processors and a default of None has been run on None
C3_Witness ==
  /\ RanNull /\ last.p = 1 /\ ~heap[1].null
  /\ heap[1].type = LIST
  /\ heap[1].default_value = VNone /\ ~heap[1].default_through_processors
  /\ Len(Procs(1)) = 2
  /\ last.out.st = "ok" /\ last.out.val = VNone

\* the outcome of a run apart from the logged argument of its entry
SameOutcome(a, b) ==
  /\ a.st = b.st /\ a.key = b.key /\ a.val = b.val /\ a.err = b.err
  /\ Tail(a.log) = Tail(b.log)

\* C4: a spec that is not nullable with a default v other than None and
\* through_processors=True, run on None, has the outcome of the run on v:
\* the same shape check, child runs and processor calls, the same pair or
\* the same failure.
C4_DefaultThroughProcessors ==
  (RanNull /\ ~heap[last.p].null /\ heap[last.p].default_through_processors
     /\ heap[last.p].default_value \notin {NoDefault, VNone}) =>
    SameOutcome(last.out, RunTop(last.p, heap[last.p].default_value))

\* a Sequence spec with an element spec and a processor, whose default [1]
\* goes through the processors, has been run on None
C4_Witness ==
  /\ RanNull /\ last.p = 1 /\ ~heap[1].null
  /\ heap[1].type = LIST /\ heap[1].list_child = 2 /\ Len(Procs(2)) = 1
  /\ heap[1].default_value = VList(<<VInt(1)>>) /\ heap[1].default_through_processors
  /\ Procs(1) = <<Processor("reject", TRUE, NoneStr)>>
  /\ last.out.err.kind = "PATTERN_NOT_MATCH" /\ Len(last.out.log) = 4

-----------------------------------------------------------------------------
(* The processor chain: one Atomic spec (id 1) and a choice of processors. *)

\* processors with and without a yield_name, one of them validate-only with
\* a yield_name, one with the empty string as its yield_name
ChainProcessors ==
  {Bare("inc"), Processor("inc", FALSE, "k"), Processor("ident", FALSE, "j"),
   Processor("ident", FALSE, ""), Processor("inc", TRUE, "v")}

InitChain ==
  /\ heap = <<InitP(<<NoneStr, "a">>, "A", "y", ATOM, 1, 2)>>
  /\ lists = NoLists
  /\ origin = <<0>>
  /\ last = NoCall

NextChain ==
  \/ \E x \in ChainProcessors, begin \in BOOLEAN : Process(1, x, begin)
  \/ \E fn \in {"reject", "boom"}, begin \in BOOLEAN : Validate(1, fn, begin)
  \/ \E read_name \in {NoneStr, "N"}, yield_name \in {NoneStr, "z"}, stay_origin \in BOOLEAN :
       Rename(1, "n", read_name, yield_name, stay_origin)
  \/ \E value \in {VInt(1), VList(<<>>)} : RunAct(1, value)

SpecChain == InitChain /\ [][NextChain]_vars

Max(S) == CHOOSE x \in S : \A y \in S : y <= x

\* the value after the first i processors, when none of them fails
RECURSIVE ValueAfter(_, _, _)
ValueAfter(procs, value, i) ==
  IF i = 0 THEN value
  ELSE LET prev == ValueAfter(procs, value, i - 1)
       IN  IF procs[i].only_validate THEN prev
           ELSE Call(procs[i].processor, prev).result

\* the yield_name of the last processor among those at the places in S, or
\* the spec's own when S is empty
LastYieldName(procs, S, yield_name) ==
  IF S = {} THEN yield_name ELSE procs[Max(S)].yield_name

\* a run on a value other than None that returned
Returned1 == last.op = "run" /\ last.arg # VNone /\ last.out.st = "ok"

\* the fold over the processor list: every processor is called once, in list
\* order, on the value its predecessors left, and the pair returned holds the
\* last value and the output key
FoldOf(procs, S) ==
  /\ Len(last.out.log) = Len(procs) + 1
  /\ \A i \in 1 .. Len(procs) :
       last.out.log[i + 1] =
         [spec |-> last.p, idx |-> i, arg |-> ValueAfter(procs, last.arg, i - 1)]
  /\ last.out.val = ValueAfter(procs, last.arg, Len(procs))
  /\ last.out.key = LastYieldName(procs, S, heap[last.p].yield_name)

\* C7 as claimed: the final output key is the yield_name of the last
\* processor that is not validate-only and declares one (any string).
C7_AnyDeclaredOverride ==
  (Returned1 /\ heap[last.p].type = ATOM) =>
    FoldOf(Procs(last.p),
           {i \in 1 .. Len(Procs(last.p)) :
              ~Procs(last.p)[i].only_validate /\ Procs(last.p)[i].yield_name # NoneStr})

C7_Folded ==
  (Returned1 /\ heap[last.p].type = ATOM) =>
    FoldOf(Procs(last.p),
           {i \in 1 .. Len(Procs(last.p)) :
              ~Procs(last.p)[i].only_validate /\ Truthy(Procs(last.p)[i].yield_name)})

\* process/validate with begin=True put the new processor first, otherwise
\* last; validate adds a validate-only processor
C7_Inserted ==
  last'.op \in {"process", "validate"} =>
    LET old == lists[heap[last'.p].processors]
        new == lists'[heap'[last'.p].processors]
    IN  /\ Len(new) = Len(old) + 1
        /\ IF last'.flag THEN Tail(new) = old
           ELSE SubSeq(new, 1, Len(old)) = old
        /\ last'.op = "validate" =>
             new[IF last'.flag THEN 1 ELSE Len(new)].only_validate

\* C7 (amended): processors are inserted at the front (begin) or the back,
\* and a run in which no processor fails is the left-to-right fold over the
\* list: a validate-only processor changes neither value nor output key, any
\* other replaces the value and, if its yield_name is a non-empty string,
\* the output key.
C7_ProcessorChain == [][C7_Inserted /\ C7_Folded']_vars

\* a run through a renaming processor followed by a validate-only processor
\* that has a yield_name of its own
C7_Witness ==
  /\ Returned1 /\ last.arg = VInt(1)
  /\ Procs(1) = <<Processor("inc", FALSE, "k"), Processor("inc", TRUE, "v")>>
  /\ last.out.key = "k" /\ last.out.val = VInt(2)

-----------------------------------------------------------------------------
(* Trees: a Mapping or Sequence root (id 1), a spec of any variant (id 2)  *)
(* and an Atomic spec (id 3), put together with add_fields, set_fields and *)
(* set_child.                                                              *)

InitTree ==
  /\ \E t1 \in {DICT, LIST}, t2 \in {ATOM, LIST, DICT} :
       heap = <<InitP(<<NoneStr, "r">>, "R", "y", t1, 1, 2), InitP(<<NoneStr, "a">>, "A", "a", t2, 3, 4),
                InitP(<<NoneStr, "b">>, "B", "b", ATOM, 5, 6)>>
  /\ lists = NoLists
  /\ origin = <<0, 0, 0>>
  /\ last = NoCall

TreeValues ==
  {VInt(1),
   VList(<<VInt(1), VNone>>),
   VList(<<VList(<<VInt(1)>>), VList(<<>>)>>),
   VList(<<VDict("b" :> VInt(1)), VDict(EmptyDict)>>),
   VDict("a" :> VInt(1) @@ "b" :> VInt(2) @@ "c" :> VInt(3)),
   VDict("a" :> VList(<<VInt(1), VNone>>)),
   VDict("a" :> VDict("b" :> VInt(1)) @@ "b" :> VNone)}

NextTree ==
  \/ \E fields \in {<<2>>, <<3>>, <<3, 2>>} : AddFields(1, fields)
  \/ AddFields(2, <<3>>)
  \/ \E fields \in {<<>>, <<3>>} : SetFields(1, fields)
  \/ \E child \in {0, 2, 3} : SetChild(1, child)
  \/ \E child \in {0, 3} : SetChild(2, child)
  \/ \E allow \in BOOLEAN : Null(3, allow)
  \/ \E q \in {1, 3} : Process(q, Bare("inc"), FALSE)
  \/ Process(2, Processor("ident", FALSE, "b"), FALSE)
  \/ \E value \in TreeValues : RunAct(1, value)

SpecTree == InitTree /\ [][NextTree]_vars

\* the run of the i-th field of p on its entry of the dict m
FieldRun(p, m, i) ==
  RunTop(Fields(p)[i], DictGet(m, heap[Fields(p)[i]].name))

\* the run of the element spec of p on the i-th element of the list v
ElementRun(p, v, i) == RunTop(heap[p].list_child, v[i])

\* the logs of the first n child runs, one after the other
RECURSIVE FieldLogs(_, _, _)
FieldLogs(p, m, n) ==
  IF n = 0 THEN <<>> ELSE FieldLogs(p, m, n - 1) \o FieldRun(p, m, n).log

RECURSIVE ElementLogs(_, _, _)
ElementLogs(p, v, n) ==
  IF n = 0 THEN <<>> ELSE ElementLogs(p, v, n - 1) \o ElementRun(p, v, n).log

\* C5: a Mapping spec without processors, run on a dict m on which every
\* field's run returns, returns a dict whose keys are exactly the output
\* keys the fields' runs returned; the fields are run in the order of the
\* field list, each on m.get(field.name); and the value under a key is the
\* one returned by the last field that returned this key.
C5_MappingOutput ==
  LET p == last.p
      m == last.arg.v
      n == Len(Fields(p))
  IN  (/\ last.op = "run" /\ last.arg.t = "dict"
       /\ heap[p].type = DICT /\ Procs(p) = <<>>
       /\ \A i \in 1 .. n : FieldRun(p, m, i).st = "ok") =>
        /\ last.out.st = "ok" /\ last.out.key = heap[p].yield_name
        /\ last.out.val.t = "dict"
        /\ DOMAIN last.out.val.v = {FieldRun(p, m, i).key : i \in 1 .. n}
        /\ \A i \in 1 .. n :
             (\A j \in (i + 1) .. n : FieldRun(p, m, j).key # FieldRun(p, m, i).key) =>
               last.out.val.v[FieldRun(p, m, i).key] = FieldRun(p, m, i).val
        /\ last.out.log = Entered(p, last.arg) \o FieldLogs(p, m, n)

\* two fields that return the same output key "b", the later one from the
\* entry "a" of an input that also has the undeclared key "c"
C5_Witness ==
  /\ last.op = "run" /\ last.p = 1 /\ heap[1].type = DICT /\ Procs(1) = <<>>
  /\ Fields(1) = <<3, 2>> /\ heap[2].type = ATOM
  /\ Procs(2) = <<Processor("ident", FALSE, "b")>>
  /\ last.arg = VDict("a" :> VInt(1) @@ "b" :> VInt(2) @@ "c" :> VInt(3))
  /\ last.out.val = VDict("b" :> VInt(1))

\* the value the processor chain of p was handed in the run `out`: the
\* argument of its first processor, or what the run returned if it has none
Handed(p, out, value) ==
  IF Procs(p) = <<>> THEN out.st = "ok" /\ out.val = value
  ELSE \E i \in 1 .. Len(out.log) : out.log[i] = [spec |-> p, idx |-> 1, arg |-> value]

\* C6: a Sequence spec run on a value v other than None: if v is not a
\* list, it raises REQUIRE_LIST(name, read_name) and no processor has run;
\* if v is a list and there is an element spec whose runs on the elements
\* all return, the processor chain is handed the list, as long as v, of the
\* values these runs returned, in order; without an element spec it is
\* handed v.
C6_SequenceShape ==
  LET p == last.p
      v == last.arg.v
  IN  (last.op = "run" /\ last.arg # VNone /\ heap[p].type = LIST) =>
        /\ last.arg.t # "list" =>
             last.out = Raise(E("REQUIRE_LIST", heap[p].name, heap[p].read_name, ""),
                              Entered(p, last.arg))
        /\ (/\ last.arg.t = "list" /\ heap[p].list_child # 0
            /\ \A i \in 1 .. Len(v) : ElementRun(p, v, i).st = "ok") =>
             /\ Handed(p, last.out, VList([i \in 1 .. Len(v) |-> ElementRun(p, v, i).val]))
             /\ SubSeq(last.out.log, 1, 1 + Len(ElementLogs(p, v, Len(v))))
                  = Entered(p, last.arg) \o ElementLogs(p, v, Len(v))
        /\ (last.arg.t = "list" /\ heap[p].list_child = 0) =>
             Handed(p, last.out, last.arg)

\* a Sequence spec with a processor, whose nullable element spec adds one,
\* has been run on [1, None] and its processor was handed [2, None]
C6_Witness ==
  /\ last.op = "run" /\ last.p = 1 /\ heap[1].type = LIST /\ heap[1].list_child = 3
  /\ heap[3].null /\ Len(Procs(3)) = 1 /\ Len(Procs(1)) = 1
  /\ last.arg = VList(<<VInt(1), VNone>>)
  /\ Handed(1, last.out, VList(<<VInt(2), VNone>>))

-----------------------------------------------------------------------------
(* Failures: the same three specs, with processors that raise typed and    *)
(* untyped failures at the root and in the children.                       *)

InitFail ==
  /\ \E t1 \in {DICT, LIST}, t2 \in {ATOM, LIST} :
       heap = <<InitP(<<NoneStr, "r">>, "R", "y", t1, 1, 2), InitP(<<NoneStr, "a">>, "A", "a", t2, 3, 4),
                InitP(<<NoneStr, "b">>, "B", "b", ATOM, 5, 6)>>
  /\ lists = NoLists
  /\ origin = <<0, 0, 0>>
  /\ last = NoCall

NextFail ==
  \/ \E fields \in {<<2>>, <<3>>} : AddFields(1, fields)
  \/ \E child \in {2, 3} : SetChild(1, child)
  \/ SetChild(2, 3)
  \/ \E allow \in BOOLEAN : Null(3, allow)
  \/ \E q \in {1, 3} : Process(q, Bare("inc"), FALSE)
  \/ Validate(2, "reject", FALSE)
  \/ \E begin \in BOOLEAN : Validate(3, "inc", begin)
  \/ \E value \in TreeValues : RunAct(1, value)

SpecFail == InitFail /\ [][NextFail]_vars

\* what the logged processor call e did
CallOf(e) == Call(Procs(e.spec)[e.idx].processor, e.arg)

\* the value the run entered at e checks the shape of
Checked(e) ==
  IF e.arg = VNone /\ heap[e.spec].default_value # NoDefault
       /\ heap[e.spec].default_through_processors
    THEN heap[e.spec].default_value
  ELSE e.arg

\* the failure a spec raises by itself on entry e, "" if none
OwnFailure(e) ==
  LET self == heap[e.spec]
  IN  IF e.arg = VNone /\ ~self.null /\ self.default_value = NoDefault
        THEN "NULL_NOT_ALLOW"
      ELSE IF e.arg = VNone /\ self.null THEN ""
      ELSE IF self.type = LIST /\ Checked(e).t # "list" THEN "REQUIRE_LIST"
      ELSE IF self.type = DICT /\ Checked(e).t # "dict" THEN "REQUIRE_DICT"
      ELSE ""

\* the failure the root caller sees when the logged call e fails
FailureOf(e) ==
  IF e.idx = 0
    THEN E(OwnFailure(e), heap[e.spec].name, heap[e.spec].read_name, "")
  ELSE IF CallOf(e).raised = "typed" THEN CallOf(e).err
  ELSE E(IF Procs(e.spec)[e.idx].only_validate THEN "VALIDATOR_CRUSHED"
         ELSE "PROCESSOR_CRUSHED",
         heap[e.spec].name, heap[e.spec].read_name, CallOf(e).msg)

\* the logged call e failed
Failed(e) == IF e.idx = 0 THEN OwnFailure(e) # "" ELSE CallOf(e).raised # "no"

\* C8: a run raises exactly when one of the calls it made failed; that call
\* is the last one made (no later field, element or processor runs), no
\* pair is returned, and the failure raised at the root is that call's own:
\* for a processor of spec S, its typed failure unchanged, or its untyped
\* failure as PROCESSOR_CRUSHED / VALIDATOR_CRUSHED (validate-only) with S's
\* name, read_name and the message; for a null or shape check of a nested
\* spec, that spec's failure with that spec's name and read_name.
C8_FailureAttribution ==
  last.op = "run" =>
    LET log == last.out.log
        n == Len(log)
    IN  /\ \A i \in 1 .. (n - 1) : ~Failed(log[i])
        /\ last.out.st = "ok" => ~Failed(log[n])
        /\ last.out.st = "err" =>
             /\ Failed(log[n])
             /\ last.out.err = FailureOf(log[n])
             /\ last.out.key = NoneStr /\ last.out.val = VNone

\* a Mapping root with a processor and the fields <<2, 3>>: the validator
\* of field 2 raised a typed failure, which reached the root as it was;
\* neither field 3 nor the root's processor ran
C8_Witness ==
  /\ last.op = "run" /\ last.p = 1 /\ heap[1].type = DICT
  /\ Fields(1) = <<2, 3>> /\ Len(Procs(1)) = 1
  /\ last.out.err = PATTERN_NOT_MATCH
  /\ last.out.log[Len(last.out.log)].spec = 2
  /\ \A i \in 1 .. Len(last.out.log) :
       last.out.log[i].spec # 3 /\ (last.out.log[i].spec = 1 => last.out.log[i].idx = 0)

\* an untyped failure of the validator of the nested spec 3 has reached the
\* root as VALIDATOR_CRUSHED with the name and read_name of spec 3
C8_WitnessUntyped ==
  /\ last.op = "run" /\ last.p = 1
  /\ last.out.err = E("VALIDATOR_CRUSHED", "b", "B", "TypeError")

-----------------------------------------------------------------------------
(* Clones: a Mapping or Sequence spec (id 1), an Atomic spec (id 2) and    *)
(* the clones made of them.                                                *)

InitClone ==
  /\ \E t \in {DICT, LIST} :
       heap = <<InitP(<<NoneStr, "s">>, "S", "s", t, 1, 2), InitP(<<NoneStr, "e">>, "E", "e", ATOM, 3, 4)>>
  /\ lists = NoLists
  /\ origin = <<0, 0>>
  /\ last = NoCall

CloneValues == {VList(<<VInt(1), VNone>>), VDict("e" :> VInt(1))}

\* the clones are made of the Mapping or Sequence spec and of its clones;
\* the Mapping specs get fields and validators, the Sequence specs an element
\* spec and processors
NextClone ==
  \/ \E p \in Ids : heap[p].type # ATOM /\ Clone(p)
  \/ \E p \in Ids : AddFields(p, <<2>>)
  \/ \E p \in Ids : SetFields(p, <<>>)
  \/ \E p \in Ids, child \in {0, 2} : SetChild(p, child)
  \/ \E p \in Ids, begin \in BOOLEAN :
       heap[p].type = LIST /\ Process(p, Bare("inc"), begin)
  \/ \E p \in Ids, begin \in BOOLEAN :
       heap[p].type = DICT /\ Validate(p, "reject", begin)
  \/ \E allow \in BOOLEAN : heap[1].type = LIST /\ Null(2, allow)
  \/ \E p \in Ids, value \in CloneValues :
       /\ heap[p].type # ATOM
       /\ heap[p].type = LIST <=> value.t = "list"
       /\ RunAct(p, value)

SpecClone == InitClone /\ [][NextClone]_vars

\* x is a clone of y or y a clone of x
ClonePair(x, y) == origin[x] = y \/ origin[y] = x

\* one call, as C9 has it
C9_Step ==
  /\ last'.op = "clone" =>
       /\ heap'[last'.q].type = heap[last'.p].type
       /\ lists'[heap'[last'.q].processors] = lists[heap[last'.p].processors]
       /\ lists'[heap'[last'.q].dict_fields] = lists[heap[last'.p].dict_fields]
  /\ last'.op \in {"add_fields", "set_fields", "process", "validate"} =>
       \A y \in Ids \ {last'.p} :
         ClonePair(y, last'.p) =>
           /\ lists'[heap'[y].processors] = lists[heap[y].processors]
           /\ lists'[heap'[y].dict_fields] = lists[heap[y].dict_fields]
  /\ \A y \in Ids : heap'[y].type = heap[y].type

\* C9: clone() gives the copy the variant of the original and lists equal
\* to the original's; after it, add_fields, set_fields, process and
\* validate (at the front or the back) on one of the two leave the field
\* list and the processor list of the other as they were, and no call
\* changes the variant of a spec.
C9_CloneListsIndependent == [][C9_Step]_vars

\* a field has just been added to the clone 3 of the Mapping spec 1, which
\* has a field and a processor of its own; the two field lists now differ
C9_Witness ==
  /\ Len(heap) >= 3 /\ origin[3] = 1 /\ heap[1].type = DICT
  /\ last.op = "add_fields" /\ last.p = 3
  /\ Fields(1) = <<2>> /\ Fields(3) = <<2, 2>>
  /\ Len(Procs(1)) = 1

\* the outcome of the element runs of the Sequence spec x on the list v
ElementsOf(x, v) == RunShape(heap, lists, x, VList(v), <<>>)

\* the elements of the list v go through the spec e as it is now
RunAgainst(x, e, v) ==
  IF \E i \in 1 .. Len(v) : RunTop(e, v[i]).st = "err"
    THEN ElementsOf(x, v).st = "err"
  ELSE ElementsOf(x, v).val = VList([i \in 1 .. Len(v) |-> RunTop(e, v[i]).val])

ElementLists == {<<VInt(1), VNone>>, <<VNone>>}

\* one call, as C10 has it for the references to element specs
C10_Step ==
  /\ last'.op = "clone" =>
       /\ heap'[last'.q].list_child = heap[last'.p].list_child
       /\ heap'[last'.p].list_child = heap[last'.p].list_child
  /\ last'.op = "set_child" =>
       /\ heap'[last'.p].list_child = last'.q
       /\ \A y \in Ids \ {last'.p} : heap'[y].list_child = heap[y].list_child
  /\ last'.op \in {"null", "default", "rename", "process", "validate"} =>
       \A y \in Ids : heap'[y].list_child = heap[y].list_child

\* after a builder call on a spec, every Sequence spec that has it as its
\* element spec runs its elements against it as it is now
C10_Reflects ==
  last.op \in {"null", "default", "rename", "process", "validate"} =>
    \A y \in Ids :
      (heap[y].type = LIST /\ heap[y].list_child = last.p) =>
        \A v \in ElementLists : RunAgainst(y, last.p, v)

\* C10: clone() leaves the copy with the element spec of the original, the
\* same object; a builder call on that element spec changes no reference to
\* it, and the elements of the original and of the clone are then run
\* against the changed spec; set_child on one spec changes the reference of
\* that spec alone.
C10_CloneSharesElement == [][C10_Step /\ C10_Reflects']_vars

\* the element spec 2 of the Sequence spec 1 and of its clone 3 has just
\* been made nullable, and [1, None] now passes through both
C10_Witness ==
  /\ Len(heap) >= 3 /\ origin[3] = 1 /\ heap[1].type = LIST
  /\ heap[1].list_child = 2 /\ heap[3].list_child = 2
  /\ last.op = "null" /\ last.p = 2 /\ last.flag
  /\ RunTop(1, VList(<<VInt(1), VNone>>)).st = "ok"
  /\ RunTop(3, VList(<<VInt(1), VNone>>)).st = "ok"

====
